---- MODULE Spec2Model ----
(***************************************************************************)
(* A model of lispy.py, the Scheme-subset interpreter: the evaluator       *)
(* (eval, Env, Procedure, standard_env), the reader's atom path (read,     *)
(* atom, Sym), the macro expander (expand, let) and the escape-only        *)
(* continuation (callcc).                                                  *)
(*                                                                         *)
(* Lisp values are records told apart by their one field name:             *)
(*   [sym |-> "x"]  [int |-> 3]  [bool |-> TRUE]  [list |-> <<...>>]       *)
(*   [none |-> 0]   [prim |-> "+"]  and a Procedure [parms, exp, env].     *)
(* Env objects live in the heap `frames`; an Env is named by its index,    *)
(* so two holders of the same index share the same mutable dict.           *)
(***************************************************************************)
EXTENDS Integers, Sequences, FiniteSets, TLC

VARIABLES
    \* eval
    prog,       \* the form the driver hands to eval(x, global_env)
    stack,      \* the nested activations of eval on the host stack, innermost last
    frames,     \* every Env allocated so far; frames[1] is global_env
    ctl,        \* [k |-> "eval" | "ret" | "raise", v |-> value or exception]
    \* callcc
    active,     \* the balls of the callcc invocations whose proc is running, innermost last
    made,       \* how many balls (callcc invocations) there have been; balls are 1..made
    flying,     \* the ball being raised, 0 when none is
    retval,     \* ball.retval of every ball, Unset until its throw is called
    outcome,    \* how each callcc invocation ended, or that it is running
    surfaced,   \* the balls that reached the host as an error
    \* read
    port,       \* the tokens the input port yields, in order
    pos,        \* how many of them next_token has handed out
    symbol_table, \* Sym's table: token text -> the Symbol object made for it
    reads,      \* what each call of read returned or raised
    \* expand
    form,       \* the form handed to expand or to the let macro
    out         \* what the call returned or raised; pending before it

evalVars == <<prog, stack, frames, ctl>>
ccVars == <<active, made, flying, retval, outcome, surfaced>>
readVars == <<port, pos, symbol_table, reads>>
expandVars == <<form, out>>
vars == <<evalVars, ccVars, readVars, expandVars>>

---------------------------------------------------------------------------
(* Bounds *)
MaxCount == 4       \* largest starting count of the count-down loop
MaxDepth == 2       \* deepest nesting of closure invocations in the scope programs
MaxArgs == 3        \* most arguments passed to a closure in the arity programs
MaxBalls == 3       \* most invocations of callcc in one run
MaxPayload == 1     \* the values handed to an escape are 1..MaxPayload
MaxTokLen == 2      \* longest token, in characters
MaxReads == 2       \* most tokens on the input port
MaxBindings == 2    \* most entries in the binding list of a let form

---------------------------------------------------------------------------
(* Values *)
S(n) == [sym |-> n]
I(n) == [int |-> n]
B(b) == [bool |-> b]
L(xs) == [list |-> xs]
None == [none |-> 0]
Prim(n) == [prim |-> n]

IsSym(v) == "sym" \in DOMAIN v
IsInt(v) == "int" \in DOMAIN v
IsBool(v) == "bool" \in DOMAIN v
IsList(v) == "list" \in DOMAIN v
IsNone(v) == "none" \in DOMAIN v
IsPrim(v) == "prim" \in DOMAIN v
IsProcedure(v) == "parms" \in DOMAIN v

\* class Procedure: the triple (parms, exp, env); env is a reference to an Env
Procedure(parms, exp, env) == [parms |-> parms, exp |-> exp, env |-> env]

\* `if eval(test, env)`: the host's truth value of a Lisp value
Truthy(v) ==
    IF IsBool(v) THEN v.bool
    ELSE IF IsInt(v) THEN v.int # 0
    ELSE IF IsList(v) THEN Len(v.list) > 0
    ELSE IF IsNone(v) THEN FALSE
    ELSE TRUE

\* x[0] is <special form symbol>
HeadIs(x, name) == IsSym(x.list[1]) /\ x.list[1].sym = name

SpecialForms == {"quote", "if", "set!", "define", "lambda", "begin"}

---------------------------------------------------------------------------
(* Environments *)

\* iterating a Symbol (a str) yields its characters
Chars(name) ==
    IF name = "args" THEN <<"a", "r", "g", "s">>
    ELSE IF name = "xs" THEN <<"x", "s">>
    ELSE <<name>>

\* dict[k] = v
Put(d, k, v) == (k :> v) @@ d

RECURSIVE ZipUpdate(_, _, _, _)
\* self.update(zip(keys, vals)), from position i on
ZipUpdate(d, keys, vals, i) ==
    IF i > Len(keys) \/ i > Len(vals) THEN d
    ELSE ZipUpdate(Put(d, keys[i], vals[i]), keys, vals, i + 1)

EmptyDict == [k \in {} |-> None]

\* the keys a parameter specification yields when zipped
ParmKeys(parms) ==
    IF IsSym(parms) THEN Chars(parms.sym)
    ELSE [j \in 1..Len(parms.list) |-> parms.list[j].sym]

\* Env.__init__(parms, args, outer): the new Env, or the TypeError it raises
EnvInit(parms, args, outer) ==
    IF IsSym(parms)
    THEN [ok |-> TRUE,
          env |-> [outer |-> outer,
                   vars |-> ZipUpdate(Put(EmptyDict, parms.sym, L(args)),
                                      ParmKeys(parms), args, 1)]]
    ELSE IF ~IsList(parms) \/ Len(args) # Len(parms.list)
    THEN [ok |-> FALSE, exc |-> "TypeError"]
    ELSE [ok |-> TRUE,
          env |-> [outer |-> outer,
                   vars |-> ZipUpdate(EmptyDict, ParmKeys(parms), args, 1)]]

RECURSIVE Find(_, _, _)
\* Env.find(var): the innermost Env on the chain from e that has var, 0 for LookupError
Find(fr, e, var) ==
    IF var \in DOMAIN fr[e].vars THEN e
    ELSE IF fr[e].outer = 0 THEN 0
    ELSE Find(fr, fr[e].outer, var)

\* the names standard_env() binds (of vars(math), a few functions stand for all)
StandardNames ==
    {"+", "-", "*", "/", ">", "<", ">=", "<=", "=", "abs", "append", "begin",
     "car", "cdr", "cons", "eq?", "equal?", "length", "list", "list?", "map",
     "max", "min", "not", "null?", "number?", "procedure?", "round", "symbol?",
     "sqrt", "sin", "cos", "floor"}

\* standard_env(): an Env with no outer, every name bound to its host procedure
standard_env == [outer |-> 0, vars |-> [n \in StandardNames |-> Prim(n)]]

\* the primitives whose application is modelled
AppliedPrims == {"+", "-", "=", "list", "begin", "car", "cdr", "not", "null?"}

Ok(v) == [ok |-> TRUE, v |-> v]
Err(e) == [ok |-> FALSE, exc |-> e]

\* proc(*exps) for a host procedure of standard_env
ApplyPrim(name, args) ==
    CASE name = "+" ->
           IF Len(args) # 2 THEN Err("TypeError")
           ELSE IF IsInt(args[1]) /\ IsInt(args[2]) THEN Ok(I(args[1].int + args[2].int))
           ELSE IF IsList(args[1]) /\ IsList(args[2]) THEN Ok(L(args[1].list \o args[2].list))
           ELSE Err("TypeError")
      [] name = "-" ->
           IF Len(args) = 2 /\ IsInt(args[1]) /\ IsInt(args[2])
           THEN Ok(I(args[1].int - args[2].int)) ELSE Err("TypeError")
      [] name = "=" ->
           IF Len(args) # 2 THEN Err("TypeError")
           ELSE IF IsInt(args[1]) /\ IsInt(args[2]) THEN Ok(B(args[1].int = args[2].int))
           ELSE Ok(B(FALSE))
      [] name = "list" -> Ok(L(args))
      [] name = "begin" ->
           IF Len(args) = 0 THEN Err("IndexError") ELSE Ok(args[Len(args)])
      [] name = "car" ->
           IF Len(args) # 1 \/ ~IsList(args[1]) THEN Err("TypeError")
           ELSE IF Len(args[1].list) = 0 THEN Err("IndexError")
           ELSE Ok(args[1].list[1])
      [] name = "cdr" ->
           IF Len(args) # 1 \/ ~IsList(args[1]) THEN Err("TypeError")
           ELSE Ok(L(SubSeq(args[1].list, 2, Len(args[1].list))))
      [] name = "not" ->
           IF Len(args) # 1 THEN Err("TypeError") ELSE Ok(B(~Truthy(args[1])))
      [] name = "null?" ->
           IF Len(args) # 1 THEN Err("TypeError")
           ELSE Ok(B(IsList(args[1]) /\ Len(args[1].list) = 0))

---------------------------------------------------------------------------
(* The forms handed to eval *)

Call(xs) == L(xs)
Lambda(parms, exp) == L(<<S("lambda"), parms, exp>>)
Define(n, exp) == L(<<S("define"), S(n), exp>>)
SetBang(n, exp) == L(<<S("set!"), S(n), exp>>)
Begin(xs) == L(<<S("begin")>> \o xs)
If(t, c, a) == L(<<S("if"), t, c, a>>)

\* (begin (define loop (lambda (n) (if (= n 0) 0 (loop (- n 1))))) (loop c))
CountDown(c) ==
    Begin(<<Define("loop",
                   Lambda(L(<<S("n")>>),
                          If(Call(<<S("="), S("n"), I(0)>>),
                             I(0),
                             Call(<<S("loop"), Call(<<S("-"), S("n"), I(1)>>)>>)))),
            Call(<<S("loop"), I(c)>>)>>)

RECURSIVE Level(_, _, _, _)
\* Nested closure invocations, level 0 being the top level: level k first defines
\* x to k when k \in binds; the innermost level d then runs (op x 9) and reads x,
\* every outer level calls the next one and then reads x itself:
\*   (begin [(define x k)] (list ((lambda () <level k+1>)) x))
Level(k, d, binds, op) ==
    LET intro == IF k \in binds THEN <<Define("x", I(k))>> ELSE <<>>
    IN IF k = d
       THEN Begin(intro \o <<L(<<S(op), S("x"), I(9)>>), S("x")>>)
       ELSE Begin(intro \o
                  <<Call(<<S("list"),
                           Call(<<Lambda(L(<<>>), Level(k + 1, d, binds, op))>>),
                           S("x")>>)>>)

\* ((lambda parms body) 1 2 ... n)
Apply(parms, body, n) ==
    Call(<<Lambda(parms, body)>> \o [j \in 1..n |-> I(j)])

\* (begin (define x 1) (define f (lambda () x)) (set! x 2) (f))
MutationVisible ==
    Begin(<<Define("x", I(1)), Define("f", Lambda(L(<<>>), S("x"))),
            SetBang("x", I(2)), Call(<<S("f")>>)>>)

\* a counter closure: two makers, three calls
\* (begin (define mk (lambda (n) (lambda () (begin (set! n (+ n 1)) n))))
\*        (define c (mk 0)) (define d (mk 5)) (list (c) (c) (d)))
Counters ==
    Begin(<<Define("mk",
                   Lambda(L(<<S("n")>>),
                          Lambda(L(<<>>),
                                 Begin(<<SetBang("n", Call(<<S("+"), S("n"), I(1)>>)),
                                         S("n")>>)))),
            Define("c", Call(<<S("mk"), I(0)>>)),
            Define("d", Call(<<S("mk"), I(5)>>)),
            Call(<<S("list"), Call(<<S("c")>>), Call(<<S("c")>>), Call(<<S("d")>>)>>)>>)

\* (+ 1 (call/cc (lambda (k) (k 10) 999)))
EscapeExample ==
    Call(<<S("+"), I(1),
           Call(<<S("call/cc"),
                  L(<<S("lambda"), L(<<S("k")>>), Call(<<S("k"), I(10)>>), I(999)>>)>>)>>)

\* (begin (define x 1) ((lambda () (define x 2) x)) x), as the specification words it
ScopeExample ==
    Begin(<<Define("x", I(1)),
            Call(<<L(<<S("lambda"), L(<<>>), Define("x", I(2)), S("x")>>)>>),
            S("x")>>)

\* small forms, one per remaining path of eval
OtherForms ==
    { Begin(<<>>),                                      \* (begin)
      Begin(<<I(1), I(2)>>),
      Begin(<<Define("y", I(1)), SetBang("y", I(2)), S("y")>>),
      Call(<<Lambda(L(<<S("begin")>>), Begin(<<>>)), I(5)>>),
      L(<<S("quote"), S("foo")>>),
      L(<<S("quote")>>),
      L(<<>>),
      Call(<<I(1), I(2)>>),
      S("foo"),
      I(7),
      L(<<S("if"), I(1), I(2)>>),
      If(I(0), I(1), I(2)),
      If(L(<<S("quote"), L(<<>>)>>), I(1), S("car")),
      L(<<S("set!"), S("y")>>),
      L(<<S("define"), S("y")>>),
      L(<<S("lambda"), S("y")>>),
      SetBang("y", Define("y", I(1))),
      Begin(<<SetBang("y", Define("y", I(1))), S("y")>>),
      Call(<<S("car"), Call(<<S("list")>>)>>),
      Call(<<S("cdr"), Call(<<S("list"), I(1), I(2)>>)>>),
      Call(<<S("begin")>>),
      Call(<<S("not"), Call(<<S("null?"), L(<<S("quote"), L(<<>>)>>)>>)>>),
      MutationVisible, Counters, EscapeExample, ScopeExample }

ParmSpecs == {S("args"), S("xs"), S("x"), L(<<>>), L(<<S("a")>>), L(<<S("a"), S("b")>>)}
Bodies == {S("args"), S("xs"), S("x"), S("a"), S("b"), S("r")}

Programs ==
    { CountDown(c) : c \in 0..MaxCount }
    \cup { Level(0, d, binds, op) :
             <<d, binds, op>> \in { t \in (0..MaxDepth) \X (SUBSET (0..MaxDepth))
                                         \X {"set!", "define"} :
                                      t[2] \subseteq 0..t[1] } }
    \cup { Apply(p, b, n) : <<p, b, n>> \in ParmSpecs \X Bodies \X (0..MaxArgs) }
    \cup OtherForms

---------------------------------------------------------------------------
(* eval(x, env): one activation per call of eval, one action per branch of  *)
(* its loop; a branch that calls eval pushes an activation and is resumed   *)
(* by the action that takes the value the callee returned.                  *)

global_env == 1

Activation(x, env) == [x |-> x, env |-> env, pc |-> "top", i |-> 0, exps |-> <<>>]

Evaluating == [k |-> "eval", v |-> None]
Returned(v) == [k |-> "ret", v |-> v]
Raised(e) == [k |-> "raise", v |-> [exc |-> e]]

depth == Len(stack)
top == stack[depth]
callers == SubSeq(stack, 1, depth - 1)

\* the running activation is at the head of its loop
AtLoop == depth > 0 /\ ctl.k = "eval" /\ top.pc = "top"
\* a callee has just returned into the activation that waits at pc
Resumed(pc) == depth > 0 /\ ctl.k = "ret" /\ top.pc = pc

\* eval touches nothing of the other entry points
EvalOnly == UNCHANGED <<ccVars, readVars, expandVars>>

\* `return v`: the activation ends and its caller gets v
Return(v) == stack' = callers /\ ctl' = Returned(v) /\ EvalOnly
\* `raise`: the exception starts to unwind the host stack
Raise(e) == stack' = stack /\ ctl' = Raised(e) /\ EvalOnly
\* the activation goes round its loop with x (and env) rebound
Continue(x, env) ==
    /\ stack' = Append(callers, Activation(x, env))
    /\ ctl' = Evaluating
    /\ EvalOnly
\* eval(exp, env) called from the running activation, which waits at pc
CallEval(pc, i, exps, exp) ==
    /\ stack' = Append(Append(callers, [top EXCEPT !.pc = pc, !.i = i, !.exps = exps]),
                       Activation(exp, top.env))
    /\ ctl' = Evaluating
    /\ EvalOnly

\* the values the variables of an entry point keep while another one runs
Unset == [unset |-> 0]
IdleEval == prog = None /\ stack = <<>> /\ frames = <<>> /\ ctl = Evaluating
IdleCallcc ==
    /\ active = <<>> /\ made = 0 /\ flying = 0
    /\ retval = <<>> /\ outcome = <<>> /\ surfaced = {}
IdleRead == port = <<>> /\ pos = 0 /\ symbol_table = <<>> /\ reads = <<>>
IdleExpand == form = None /\ out = Evaluating

\* the driver's val = eval(x): x in global_env, which standard_env() made
Init ==
    /\ prog \in Programs
    /\ stack = <<Activation(prog, global_env)>>
    /\ frames = <<standard_env>>
    /\ ctl = Evaluating
    /\ IdleCallcc /\ IdleRead /\ IdleExpand

\* if isinstance(x, Symbol): return env.find(x)[x]
EvalSymbol ==
    /\ AtLoop /\ IsSym(top.x)
    /\ LET e == Find(frames, top.env, top.x.sym)
       IN IF e = 0 THEN Raise("LookupError")
          ELSE Return(frames[e].vars[top.x.sym])
    /\ UNCHANGED <<prog, frames>>

\* elif not isinstance(x, List): return x
EvalConstant ==
    /\ AtLoop /\ ~IsSym(top.x) /\ ~IsList(top.x)
    /\ Return(top.x)
    /\ UNCHANGED <<prog, frames>>

\* x[0] of the empty list: IndexError
EvalEmpty ==
    /\ AtLoop /\ IsList(top.x) /\ Len(top.x.list) = 0
    /\ Raise("IndexError")
    /\ UNCHANGED <<prog, frames>>

AtForm(name) == AtLoop /\ IsList(top.x) /\ Len(top.x.list) > 0 /\ HeadIs(top.x, name)

\* elif x[0] is _quote: (_, exp) = x; return exp
EvalQuote ==
    /\ AtForm("quote")
    /\ IF Len(top.x.list) # 2 THEN Raise("ValueError") ELSE Return(top.x.list[2])
    /\ UNCHANGED <<prog, frames>>

\* elif x[0] is _if: (_, test, conseq, alt) = x; ... eval(test, env)
EvalIf ==
    /\ AtForm("if")
    /\ IF Len(top.x.list) # 4 THEN Raise("ValueError")
       ELSE CallEval("if", 0, <<>>, top.x.list[2])
    /\ UNCHANGED <<prog, frames>>

\* x = (conseq if eval(test, env) else alt)
IfBranch ==
    /\ Resumed("if")
    /\ Continue(IF Truthy(ctl.v) THEN top.x.list[3] ELSE top.x.list[4], top.env)
    /\ UNCHANGED <<prog, frames>>

\* elif x[0] is _set: (_, var, exp) = x; ... eval(exp, env)
EvalSet ==
    /\ AtForm("set!")
    /\ IF Len(top.x.list) # 3 THEN Raise("ValueError")
       ELSE CallEval("set", 0, <<>>, top.x.list[3])
    /\ UNCHANGED <<prog, frames>>

\* SetAssign with a slip: env[var] = <the value>, as define does
SetAssignCurrent ==
    /\ Resumed("set")
    /\ frames' = [frames EXCEPT ![top.env].vars = Put(@, top.x.list[2].sym, ctl.v)]
    /\ Return(None)
    /\ UNCHANGED prog

\* env.find(var)[var] = <the value>; return None
SetAssign ==
    /\ Resumed("set")
    /\ LET var == top.x.list[2].sym
           e == Find(frames, top.env, var)
       IN IF e = 0
          THEN Raise("LookupError") /\ frames' = frames
          ELSE /\ frames' = [frames EXCEPT ![e].vars = Put(@, var, ctl.v)]
               /\ Return(None)
    /\ UNCHANGED prog

\* elif x[0] is _define: (_, var, exp) = x; ... eval(exp, env)
EvalDefine ==
    /\ AtForm("define")
    /\ IF Len(top.x.list) # 3 THEN Raise("ValueError")
       ELSE CallEval("define", 0, <<>>, top.x.list[3])
    /\ UNCHANGED <<prog, frames>>

\* DefineAssign with a slip: an outer binding of var, when there is one, is overwritten
DefineAssignOuter ==
    /\ Resumed("define")
    /\ LET var == top.x.list[2].sym
           e == Find(frames, top.env, var)
           target == IF e = 0 THEN top.env ELSE e
       IN frames' = [frames EXCEPT ![target].vars = Put(@, var, ctl.v)]
    /\ Return(None)
    /\ UNCHANGED prog

\* env[var] = <the value>; return None
DefineAssign ==
    /\ Resumed("define")
    /\ frames' = [frames EXCEPT ![top.env].vars = Put(@, top.x.list[2].sym, ctl.v)]
    /\ Return(None)
    /\ UNCHANGED prog

\* EvalLambda with a slip: the Procedure gets a copy of env, not env itself
EvalLambdaCopy ==
    /\ AtForm("lambda")
    /\ IF Len(top.x.list) # 3 THEN Raise("ValueError") /\ frames' = frames
       ELSE /\ frames' = Append(frames, frames[top.env])
            /\ Return(Procedure(top.x.list[2], top.x.list[3], Len(frames) + 1))
    /\ UNCHANGED prog

\* elif x[0] is _lambda: (_, parms, exp) = x; return Procedure(parms, exp, env)
EvalLambda ==
    /\ AtForm("lambda")
    /\ IF Len(top.x.list) # 3 THEN Raise("ValueError")
       ELSE Return(Procedure(top.x.list[2], top.x.list[3], top.env))
    /\ UNCHANGED <<prog, frames>>

\* x[1:-1] has an element at (1-based) position j of x
InBeginBody(x, j) == 2 <= j /\ j <= Len(x.list) - 1

\* elif x[0] is _begin: for exp in x[1:-1]: eval(exp, env) -- the first one, or
\* none and x = x[-1]
EvalBegin ==
    /\ AtForm("begin")
    /\ IF InBeginBody(top.x, 2) THEN CallEval("begin", 2, <<>>, top.x.list[2])
       ELSE Continue(top.x.list[Len(top.x.list)], top.env)
    /\ UNCHANGED <<prog, frames>>

\* the loop over x[1:-1] goes on (the value is dropped), or ends and x = x[-1]
BeginNext ==
    /\ Resumed("begin")
    /\ IF InBeginBody(top.x, top.i + 1)
       THEN CallEval("begin", top.i + 1, <<>>, top.x.list[top.i + 1])
       ELSE Continue(top.x.list[Len(top.x.list)], top.env)
    /\ UNCHANGED <<prog, frames>>

\* else: exps = [eval(exp, env) for exp in x] -- the first element
EvalCall ==
    /\ AtLoop /\ IsList(top.x) /\ Len(top.x.list) > 0
    /\ \A f \in SpecialForms : ~HeadIs(top.x, f)
    /\ CallEval("args", 1, <<>>, top.x.list[1])
    /\ UNCHANGED <<prog, frames>>

\* the comprehension takes the value and evaluates the next element
CallNextArg ==
    /\ Resumed("args") /\ top.i < Len(top.x.list)
    /\ CallEval("args", top.i + 1, Append(top.exps, ctl.v), top.x.list[top.i + 1])
    /\ UNCHANGED <<prog, frames>>

\* the comprehension is complete: proc = exps.pop(0)
Applying == Resumed("args") /\ top.i = Len(top.x.list)
proc == IF top.i = 1 THEN ctl.v ELSE top.exps[1]
exps == Tail(Append(top.exps, ctl.v))

\* TailCall with a slip: the body is evaluated by a nested eval(proc.exp, Env(...)),
\* as Procedure.__call__ does, and its value is passed on
TailCallRecursive(p, args) ==
    LET new == EnvInit(p.parms, args, p.env)
    IN IF new.ok
       THEN /\ frames' = Append(frames, new.env)
            /\ stack' = Append(Append(callers,
                                      [top EXCEPT !.x = L(<<S("begin"), p.exp>>),
                                                  !.i = 2, !.exps = <<Prim("begin")>>]),
                               Activation(p.exp, Len(frames) + 1))
            /\ ctl' = Evaluating
            /\ EvalOnly
       ELSE /\ Raise(new.exc)
            /\ frames' = frames

\* x = proc.exp; env = Env(proc.parms, exps, proc.env)
TailCall(p, args) ==
    LET new == EnvInit(p.parms, args, p.env)
    IN IF new.ok
       THEN /\ frames' = Append(frames, new.env)
            /\ Continue(p.exp, Len(frames) + 1)
       ELSE /\ Raise(new.exc)
            /\ frames' = frames

\* if isinstance(proc, Procedure): x = proc.exp; env = Env(...)
ApplyProcedure ==
    /\ Applying /\ IsProcedure(proc)
    /\ TailCall(proc, exps)
    /\ UNCHANGED prog

\* else: return proc(*exps)
ApplyPrimitive ==
    /\ Applying /\ ~IsProcedure(proc)
    /\ IsPrim(proc) => proc.prim \in AppliedPrims
    /\ IF ~IsPrim(proc) THEN Raise("TypeError")
       ELSE LET r == ApplyPrim(proc.prim, exps)
            IN IF r.ok THEN Return(r.v) ELSE Raise(r.exc)
    /\ UNCHANGED <<prog, frames>>

\* an exception leaves an activation of eval, which has no handler
Unwind ==
    /\ depth > 0 /\ ctl.k = "raise"
    /\ stack' = callers
    /\ UNCHANGED <<prog, frames, ctl>>
    /\ EvalOnly

Next ==
    \/ EvalSymbol \/ EvalConstant \/ EvalEmpty \/ EvalQuote
    \/ EvalIf \/ IfBranch
    \/ EvalSet \/ SetAssign
    \/ EvalDefine \/ DefineAssign
    \/ EvalLambda
    \/ EvalBegin \/ BeginNext
    \/ EvalCall \/ CallNextArg \/ ApplyProcedure \/ ApplyPrimitive
    \/ Unwind

Spec == Init /\ [][Next]_vars

\* the outermost eval has returned or raised
Done == depth = 0

---------------------------------------------------------------------------
(* Properties of eval *)

IsCountDown == \E c \in 0..MaxCount : prog = CountDown(c)

\* C1: while eval runs the self-tail-recursive count-down loop, at most three
\* activations of eval are nested on the host stack, whatever the starting count,
\* and the loop ends with the value 0.
TailCallBounded ==
    IsCountDown => /\ depth <= 3
                   /\ Done => ctl = Returned(I(0))

\* the longest count-down has run all its iterations, one Env per invocation
CountDownFinished ==
    /\ prog = CountDown(MaxCount)
    /\ Done /\ ctl = Returned(I(0))
    /\ Len(frames) = MaxCount + 2

\* the scope programs: <<depth of nesting, levels that define x first>>
ScopeCases == { c \in (0..MaxDepth) \X (SUBSET (0..MaxDepth)) : c[2] \subseteq 0..c[1] }

\* lexical scoping: the level whose x a reference at level k denotes, -1 when unbound
Visible(k, binds) ==
    IF \E j \in binds : j <= k
    THEN CHOOSE j \in binds : j <= k /\ \A m \in binds : m <= k => m <= j
    ELSE -1

RECURSIVE Expected(_, _, _, _)
\* the value level k yields when x of level `target` holds 9 and x of every other
\* level what that level defined
Expected(k, d, binds, target) ==
    IF k = d THEN I(9)
    ELSE L(<<Expected(k + 1, d, binds, target),
             I(IF Visible(k, binds) = target THEN 9 ELSE Visible(k, binds))>>)

ScopeOutcome(d, binds, target) ==
    IF target = -1 \/ \E k \in 0..(d - 1) : Visible(k, binds) = -1
    THEN Raised("LookupError")
    ELSE Returned(Expected(0, d, binds, target))

\* level k runs in frames[k + 1]
HasX(k) == "x" \in DOMAIN frames[k + 1].vars
XOf(k) == frames[k + 1].vars["x"]

DefineResult ==
    \A c \in ScopeCases :
        LET d == c[1]
            binds == c[2]
        IN (Done /\ prog = Level(0, d, binds, "define")) =>
              /\ ctl = ScopeOutcome(d, binds \cup {d}, d)
              /\ Len(frames) = d + 1
              /\ HasX(d) /\ XOf(d) = I(9)
              /\ \A k \in 0..(d - 1) : /\ HasX(k) <=> k \in binds
                                       /\ HasX(k) => XOf(k) = I(k)

DefineStep ==
    Resumed("define") =>
        LET var == top.x.list[2].sym
            e == top.env
        IN /\ Len(frames') = Len(frames)
           /\ \A o \in 1..Len(frames) : o # e => frames'[o] = frames[o]
           /\ frames'[e].outer = frames[e].outer
           /\ DOMAIN frames'[e].vars = DOMAIN frames[e].vars \cup {var}
           /\ frames'[e].vars[var] = ctl.v
           /\ \A n \in DOMAIN frames[e].vars : n # var => frames'[e].vars[n] = frames[e].vars[n]

\* C2: a define evaluated inside a closure invocation writes only into the Env of
\* that invocation: every other Env, the global one included, keeps its bindings
\* even when it binds the same name; a reference inside the invocation sees the
\* new value, a reference after the call returns sees the outer one.
DefineStaysLocal == []DefineResult /\ [][DefineStep]_vars

\* (begin (define x 0) (list ((lambda () (begin (define x 9) x))) x)) gave (9 0)
DefineShadowed ==
    /\ prog = Level(0, 1, {0}, "define")
    /\ Done /\ ctl = Returned(L(<<I(9), I(0)>>))
    /\ XOf(0) = I(0) /\ XOf(1) = I(9)

RECURSIVE Outward(_, _)
\* the Env chain from e outward
Outward(fr, e) == IF e = 0 THEN <<>> ELSE <<e>> \o Outward(fr, fr[e].outer)

SetResult ==
    \A c \in ScopeCases :
        LET d == c[1]
            binds == c[2]
            t == Visible(d, binds)
        IN (Done /\ prog = Level(0, d, binds, "set!")) =>
              /\ ctl = ScopeOutcome(d, binds, t)
              /\ Len(frames) = d + 1
              /\ \A k \in 0..d : /\ HasX(k) <=> k \in binds
                                 /\ HasX(k) => XOf(k) = I(IF k = t THEN 9 ELSE k)

SetStep ==
    Resumed("set") =>
        LET var == top.x.list[2].sym
            chain == Outward(frames, top.env)
            binders == { j \in 1..Len(chain) : var \in DOMAIN frames[chain[j]].vars }
        IN IF binders = {}
           THEN frames' = frames /\ ctl' = Raised("LookupError")
           ELSE LET e == chain[CHOOSE j \in binders : \A m \in binders : j <= m]
                IN /\ frames' = [frames EXCEPT ![e].vars[var] = ctl.v]
                   /\ ctl' = Returned(None)

\* C3: (set! var exp) evaluates exp, then overwrites var in the innermost Env of
\* the chain that binds it and changes no other Env and no other binding; when no
\* Env of the chain binds var it raises LookupError and binds var nowhere.
SetFindsInnermost == []SetResult /\ [][SetStep]_vars

\* x is bound at levels 0 and 1 and set at level 2: level 1's x is 9, the global 0
SetOverwroteInnermost ==
    /\ prog = Level(0, 2, {0, 1}, "set!")
    /\ Done /\ ctl.k = "ret"
    /\ XOf(1) = I(9) /\ XOf(0) = I(0) /\ ~HasX(2)

CaptureResult ==
    Done => /\ prog = MutationVisible => ctl = Returned(I(2))
            /\ prog = Counters => ctl = Returned(L(<<I(1), I(2), I(6)>>))

CallStep ==
    (Applying /\ IsProcedure(proc) /\ ctl'.k = "eval") =>
        /\ Len(frames') = Len(frames) + 1
        /\ \A o \in 1..Len(frames) : frames'[o] = frames[o]
        /\ frames'[Len(frames')].outer = proc.env
        /\ stack'[depth].env = Len(frames')

\* C4: a closure holds its defining Env by reference: a set! made after the
\* closure was created is seen by its later calls, so the mutation example
\* yields 2 (and two counters made by one maker count apart); every call of a
\* closure allocates a fresh Env whose outer is the captured one.
ClosureSharesEnv == []CaptureResult /\ [][CallStep]_vars

MutationSeen == prog = MutationVisible /\ Done /\ ctl = Returned(I(2)) /\ Len(frames) = 2

\* C5: in the standard environment (+ 1 (call/cc (lambda (k) (k 10) 999)))
\* evaluates to 11.
EscapeYieldsEleven == (Done /\ prog = EscapeExample) => ctl = Returned(I(11))

Ints(n) == [j \in 1..n |-> I(j)]

\* C7: the Env made for a closure invocation binds, for a variadic parameter
\* name, exactly that name to the list of all arguments, and for a list of
\* formals exactly those names to the arguments by position.
FrameBindsFormals ==
    \A p \in ParmSpecs, b \in Bodies, n \in 0..MaxArgs :
        (prog = Apply(p, b, n) /\ Len(frames) >= 2) =>
            frames[2].vars =
                IF IsSym(p) THEN (p.sym :> L(Ints(n)))
                ELSE [nm \in { p.list[j].sym : j \in 1..n } |->
                        I(CHOOSE j \in 1..n : p.list[j].sym = nm)]

\* C8: (begin) fails with an error and yields no value; a begin with
\* sub-expressions yields the value of the last one.
EmptyBeginFails ==
    Done => /\ prog = Begin(<<>>) => ctl.k = "raise"
            /\ prog = Begin(<<I(1), I(2)>>) => ctl = Returned(I(2))

---------------------------------------------------------------------------
(* callcc(proc): every invocation makes its own ball and runs proc(throw)   *)
(* inside try; proc is any host code: it may call callcc again, call any    *)
(* throw made so far (its own, an outer one, one whose callcc has ended),   *)
(* or return.                                                               *)

Running == [how |-> "running", v |-> Unset]
innermost == active[Len(active)]
enclosing == SubSeq(active, 1, Len(active) - 1)
Payloads == { I(n) : n \in 1..MaxPayload }

CallccOnly == UNCHANGED <<evalVars, readVars, expandVars>>

InitCallcc ==
    /\ active = <<>> /\ made = 0 /\ flying = 0
    /\ retval = <<>> /\ outcome = <<>> /\ surfaced = {}
    /\ IdleEval /\ IdleRead /\ IdleExpand

\* ball = RuntimeWarning(...); try: proc(throw) -- proc starts to run
CallCC ==
    /\ flying = 0 /\ made < MaxBalls
    /\ made' = made + 1
    /\ active' = Append(active, made + 1)
    /\ retval' = Append(retval, Unset)
    /\ outcome' = Append(outcome, Running)
    /\ UNCHANGED <<flying, surfaced>>
    /\ CallccOnly

\* return proc(throw): proc returned v
ProcReturn(v) ==
    /\ flying = 0 /\ active # <<>>
    /\ outcome' = [outcome EXCEPT ![innermost] = [how |-> "returned", v |-> v]]
    /\ active' = enclosing
    /\ UNCHANGED <<made, flying, retval, surfaced>>
    /\ CallccOnly

\* throw(retval) of ball b: ball.retval = retval; raise ball
Throw(b, v) ==
    /\ flying = 0 /\ b \in 1..made
    /\ retval' = [retval EXCEPT ![b] = v]
    /\ flying' = b
    /\ UNCHANGED <<active, made, outcome, surfaced>>
    /\ CallccOnly

\* CaughtHere with a slip: every RuntimeWarning is taken for the own ball
CaughtAny(w, ball) == TRUE

\* if w is ball
CaughtHere(w, ball) == w = ball

\* except RuntimeWarning as w: return ball.retval if w is ball, else raise w
Handle ==
    /\ flying # 0 /\ active # <<>>
    /\ active' = enclosing
    /\ IF CaughtHere(flying, innermost)
       THEN /\ outcome' = [outcome EXCEPT ![innermost] =
                                [how |-> "caught", v |-> retval[innermost]]]
            /\ flying' = 0
       ELSE /\ outcome' = [outcome EXCEPT ![innermost] = [how |-> "reraised", v |-> Unset]]
            /\ flying' = flying
    /\ UNCHANGED <<made, retval, surfaced>>
    /\ CallccOnly

\* no callcc invocation is left on the host stack: the driver gets the exception
Surface ==
    /\ flying # 0 /\ active = <<>>
    /\ surfaced' = surfaced \cup {flying}
    /\ flying' = 0
    /\ UNCHANGED <<active, made, retval, outcome>>
    /\ CallccOnly

NextCallcc ==
    \/ CallCC
    \/ \E v \in Payloads : ProcReturn(v)
    \/ \E b \in 1..MaxBalls, v \in Payloads : Throw(b, v)
    \/ Handle
    \/ Surface

SpecCallcc == InitCallcc /\ [][NextCallcc]_vars

Range(seq) == { seq[j] : j \in 1..Len(seq) }

\* a ball is caught only by its own invocation, and an escape that surfaced was
\* invoked after its invocation had ended
EscapeOwned ==
    /\ \A b \in 1..made : outcome[b].how = "caught" => retval[b] # Unset
    /\ \A b \in surfaced : outcome[b].how # "running"

EscapeStep ==
    flying # 0 =>
        IF active = <<>>
        THEN flying \in surfaced'
        ELSE /\ active' = enclosing
             /\ \A b \in 1..made : b # innermost => outcome'[b] = outcome[b]
             /\ IF flying = innermost
                THEN outcome'[innermost] = [how |-> "caught", v |-> retval[flying]]
                     /\ flying' = 0
                ELSE outcome'[innermost].how = "reraised" /\ flying' = flying

\* C6: an escape is caught only by the callcc invocation that made it: an
\* invocation between the throw and the owner re-raises and returns no value, the
\* owner returns the payload, invoking the innermost escape ends the innermost
\* invocation only, and an escape whose invocation has ended is caught by no
\* active invocation and reaches the driver as an error.
EscapeMatchedByIdentity == []EscapeOwned /\ [][EscapeStep]_vars

\* the outer escape was invoked inside the inner invocation
OuterEscapeFromInner ==
    /\ made >= 2
    /\ outcome[2].how = "reraised"
    /\ outcome[1] = [how |-> "caught", v |-> I(1)]
    /\ active = <<>>

---------------------------------------------------------------------------
(* read(inport) and atom(token). A token is the sequence of its characters. *)
(* The port yields bare tokens only: none is a parenthesis or a quote mark, *)
(* so read_ahead goes past its first three tests.                           *)

Alphabet == {"1", ".", "-", "i", "j", "f", "#", "t"}
Tokens == UNION { [1..n -> Alphabet] : n \in 1..MaxTokLen }

Digits == {"0", "1", "2", "3", "4", "5", "6", "7", "8", "9"}
Signs == {"+", "-"}

\* the Symbols made by Sym when the module is loaded, in order
Interned ==
    << <<"q", "u", "o", "t", "e">>,
       <<"i", "f">>,
       <<"s", "e", "t", "!">>,
       <<"d", "e", "f", "i", "n", "e">>,
       <<"l", "a", "m", "b", "d", "a">>,
       <<"b", "e", "g", "i", "n">>,
       <<"d", "e", "f", "i", "n", "e", "-", "m", "a", "c", "r", "o">>,
       <<"q", "u", "a", "s", "i", "q", "u", "o", "t", "e">>,
       <<"u", "n", "q", "u", "o", "t", "e">>,
       <<"u", "n", "q", "u", "o", "t", "e", "-", "s", "p", "l", "i", "c", "i", "n", "g">>,
       <<"a", "p", "p", "e", "n", "d">>,
       <<"c", "o", "n", "s">>,
       <<"l", "e", "t">> >>

\* eof_object = Symbol('#<eof-object>')
eof_object == <<"#", "<", "e", "o", "f", "-", "o", "b", "j", "e", "c", "t", ">">>

\* `a in b` of two strings: a occurs in b
Occurs(a, b) == \E k \in 0..(Len(b) - Len(a)) : SubSeq(b, k + 1, k + Len(a)) = a

AllDigits(t) == Len(t) > 0 /\ \A k \in 1..Len(t) : t[k] \in Digits

\* the token without its leading sign, when it has one and more after it
Unsigned(t) == IF Len(t) > 1 /\ t[1] \in Signs THEN Tail(t) ELSE t

\* int(token) does not raise ValueError
ParsesInt(t) == AllDigits(Unsigned(t))

\* digits, digits with a point before, after or inside
Decimal(t) ==
    \/ AllDigits(t)
    \/ \E k \in 1..Len(t) :
          LET a == SubSeq(t, 1, k - 1)
              b == SubSeq(t, k + 1, Len(t))
          IN /\ t[k] = "."
             /\ a = <<>> \/ AllDigits(a)
             /\ b = <<>> \/ AllDigits(b)
             /\ ~(a = <<>> /\ b = <<>>)

\* float(token) does not raise ValueError
ParsesFloat(t) == Decimal(Unsigned(t))

\* complex(token) does not raise ValueError: a real, an imaginary ending in j,
\* or a real, a sign and an imaginary
ParsesComplex(t) ==
    \/ ParsesFloat(t)
    \/ /\ Len(t) > 0 /\ t[Len(t)] = "j"
       /\ LET u == SubSeq(t, 1, Len(t) - 1)
          IN \/ u = <<>> \/ u = <<"+">> \/ u = <<"-">>
             \/ ParsesFloat(u)
             \/ \E k \in 2..Len(u) :
                   LET m == SubSeq(u, k + 1, Len(u))
                   IN /\ u[k] \in Signs
                      /\ ParsesFloat(SubSeq(u, 1, k - 1))
                      /\ m = <<>> \/ Decimal(m)

\* token.replace('i', 'j', 1)
ReplaceFirst(t) ==
    IF \E k \in 1..Len(t) : t[k] = "i"
    THEN LET k == CHOOSE k \in 1..Len(t) : t[k] = "i" /\ \A m \in 1..(k - 1) : t[m] # "i"
         IN [t EXCEPT ![k] = "j"]
    ELSE t

SymbolObject(id, text) == [symbol |-> id, text |-> text]
Number(kind, text) == [number |-> kind, text |-> text]
IsSymbolObject(v) == "symbol" \in DOMAIN v

\* Sym(s): the table after the call; a new Symbol object is made when s is not in it
SymTable(table, t) ==
    IF t \in DOMAIN table THEN table
    ELSE (t :> SymbolObject(Cardinality(DOMAIN table) + 1, t)) @@ table

\* atom(token): the value returned
atom(table, t) ==
    IF t = <<"#", "t">> THEN B(TRUE)
    ELSE IF t = <<"#", "f">> THEN B(FALSE)
    ELSE IF t[1] = "\"" THEN [string |-> SubSeq(t, 2, Len(t) - 1)]
    ELSE IF ParsesInt(t) THEN Number("int", t)
    ELSE IF ParsesFloat(t) THEN Number("float", t)
    ELSE IF ParsesComplex(ReplaceFirst(t)) THEN Number("complex", ReplaceFirst(t))
    ELSE SymTable(table, t)[t]

\* atom(token) reaches Sym(token)
ReachesSym(t) ==
    /\ t # <<"#", "t">> /\ t # <<"#", "f">> /\ t[1] # "\""
    /\ ~ParsesInt(t) /\ ~ParsesFloat(t) /\ ~ParsesComplex(ReplaceFirst(t))

\* elif token in eof_object: raise SyntaxError('unexpected EOF in list')
TakenForEof(t) == Occurs(t, eof_object)

ReadOnly == UNCHANGED <<evalVars, ccVars, expandVars>>

InitRead ==
    /\ port \in UNION { [1..n -> Tokens] : n \in 0..MaxReads }
    /\ pos = 0
    /\ symbol_table = [t \in Range(Interned) |->
                          SymbolObject(CHOOSE k \in 1..Len(Interned) : Interned[k] = t, t)]
    /\ reads = <<>>
    /\ IdleEval /\ IdleCallcc /\ IdleExpand

\* read(inport): token1 = inport.next_token(); read_ahead(token1)
Read ==
    /\ pos < Len(port)
    /\ pos' = pos + 1
    /\ LET t == port[pos + 1]
       IN IF TakenForEof(t)
          THEN /\ reads' = Append(reads, [exc |-> "SyntaxError"])
               /\ symbol_table' = symbol_table
          ELSE /\ reads' = Append(reads, atom(symbol_table, t))
               /\ symbol_table' = IF ReachesSym(t) THEN SymTable(symbol_table, t)
                                  ELSE symbol_table
    /\ UNCHANGED port
    /\ ReadOnly

\* read(inport) at the end of the input: next_token returns eof_object
ReadEof ==
    /\ pos = Len(port) /\ Len(reads) = Len(port)
    /\ reads' = Append(reads, [eof |-> eof_object])
    /\ UNCHANGED <<port, pos, symbol_table>>
    /\ ReadOnly

NextRead == Read \/ ReadEof

SpecRead == InitRead /\ [][NextRead]_vars

\* C10: every bare token that is not #t or #f, does not start with a double
\* quote and parses neither as an integer nor as a float nor as a complex number
\* is read as the interned Symbol with that text, never as an error, and two
\* reads of the same token give the same Symbol object.
ReaderInternsSymbols ==
    \A k \in 1..Len(reads) :
        (k <= Len(port) /\ ReachesSym(port[k])) =>
            /\ IsSymbolObject(reads[k])
            /\ reads[k].text = port[k]
            /\ \A m \in 1..Len(reads) :
                  (m <= Len(port) /\ port[m] = port[k]) => reads[m] = reads[k]

---------------------------------------------------------------------------
(* expand(x, toplevel) and the let macro of macro_table *)

\* what may stand in a let form where a binding (symbol expression) should
BindingEntries ==
    { L(<<S("a"), I(1)>>), L(<<S("b"), I(2)>>), L(<<S("a")>>), I(5),
      L(<<L(<<S("a")>>), I(1)>>) }

BindingLists ==
    { L(bs) : bs \in UNION { [1..n -> BindingEntries] : n \in 0..MaxBindings } }
    \cup { S("a"), I(5) }

LetBodies == { <<>>, <<Call(<<S("+"), S("a"), S("b")>>)>>, <<S("a"), S("b")>> }

LetForms == { L(<<S("let"), bl>> \o body) : bl \in BindingLists, body \in LetBodies }

Forms ==
    LetForms
    \cup { I(0), I(7), B(TRUE), B(FALSE), S("a"), S("let"), S("foo") }
    \cup { L(<<S("let")>>), L(<<>>), Call(<<S("+"), I(1), I(2)>>),
           If(S("a"), I(1), I(2)) }

IsLetForm(x) == IsList(x) /\ Len(x.list) > 0 /\ HeadIs(x, "let")

\* isinstance(b, list) and len(b) == 2 and isinstance(b[0], Symbol)
GoodBinding(b) == IsList(b) /\ Len(b.list) = 2 /\ IsSym(b.list[1])

\* let(*args): what the call raises; it returns in no case, because
\* [[_lambda, list(vars)] + map(expand, body)] adds a map object to a list
let(args) ==
    IF Len(args) <= 1 THEN Raised("SyntaxError")            \* require: wrong length
    ELSE LET bindings == args[1]
         IN IF ~IsList(bindings) /\ ~IsSym(bindings)
            THEN Raised("TypeError")                        \* not iterable
            ELSE IF IsSym(bindings)
                    \/ \E k \in 1..Len(bindings.list) : ~GoodBinding(bindings.list[k])
            THEN Raised("SyntaxError")                      \* require: illegal binding list
            ELSE IF Len(bindings.list) = 0
            THEN Raised("ValueError")                       \* vars, vals = zip()
            ELSE Raised("TypeError")                        \* list + map

ExpandOnly == UNCHANGED <<evalVars, ccVars, readVars>>

InitExpand ==
    /\ form \in Forms
    /\ out = Evaluating
    /\ IdleEval /\ IdleCallcc /\ IdleRead

\* expand(x, toplevel): the body is `pass`, the call returns None
Expand(toplevel) ==
    /\ out.k = "eval"
    /\ out' = Returned(None)
    /\ UNCHANGED form
    /\ ExpandOnly

\* macro_table[_let](*x[1:]) for a form x whose head is let
LetMacro ==
    /\ out.k = "eval" /\ IsLetForm(form)
    /\ out' = let(Tail(form.list))
    /\ UNCHANGED form
    /\ ExpandOnly

NextExpand == (\E toplevel \in BOOLEAN : Expand(toplevel)) \/ LetMacro

SpecExpand == InitExpand /\ [][NextExpand]_vars

\* (let ((v1 e1) ...) body...) with a well-formed, non-empty binding list and a body
WellFormedLet(x) ==
    /\ IsLetForm(x) /\ Len(x.list) >= 3
    /\ IsList(x.list[2]) /\ Len(x.list[2].list) > 0
    /\ \A k \in 1..Len(x.list[2].list) : GoodBinding(x.list[2].list[k])

IllFormedLet(x) ==
    /\ IsLetForm(x) /\ Len(x.list) >= 3 /\ IsList(x.list[2])
    /\ \E k \in 1..Len(x.list[2].list) : ~GoodBinding(x.list[2].list[k])

\* ((lambda (v1 v2 ...) body...) e1 e2 ...)
LetExpansion(x) ==
    LET bs == x.list[2].list
    IN L(<<L(<<S("lambda"), L([k \in 1..Len(bs) |-> bs[k].list[1]])>>
             \o SubSeq(x.list, 3, Len(x.list)))>>
         \o [k \in 1..Len(bs) |-> bs[k].list[2]])

\* C9: expand returns a non-list form unchanged and rewrites
\* (let ((v1 e1) ...) body...) to ((lambda (v1 ...) body...) e1 ...); a binding
\* entry that is not a (symbol expression) pair is a SyntaxError.
ExpandRewritesLet ==
    out.k # "eval" =>
        /\ ~IsList(form) => out = Returned(form)
        /\ WellFormedLet(form) => out = Returned(LetExpansion(form))
        /\ IllFormedLet(form) => out = Raised("SyntaxError")

====
